---- MODULE Spec2Model ----
(***************************************************************************)
(* biznews-mcp (src/index.ts): the two tool handlers `news` and            *)
(* `business_news`, the headline fetch with its normalization              *)
(* (mapTheNewsApiToNewsApiArticles) and the parse of the completion.       *)
(*                                                                         *)
(* JavaScript values are tagged records: k is the kind of the value.       *)
(* An object keeps its own properties as a sequence of entries, in         *)
(* property order, so that Object.values and JSON.stringify see the order  *)
(* the program sees.  A string that is used as JSON text carries what      *)
(* JSON.parse makes of it: wf = FALSE (a SyntaxError) or the document.     *)
(***************************************************************************)
EXTENDS Integers, Sequences, FiniteSets, TLC

\* Most articles in one answer of the provider or of the model.
MaxItems == 2
\* Most entries of a category -> list mapping under 'data'.
MaxGroups == 3

----------------------------------------------------------------------------
(* JavaScript values *)

Undefined == [k |-> "undefined"]
Null == [k |-> "null"]
Str(s) == [k |-> "string", v |-> s]
Num(n) == [k |-> "number", n |-> n]
Arr(s) == [k |-> "array", elems |-> s]
Prop(key, val) == [key |-> key, val |-> val]
Obj(entries) == [k |-> "object", entries |-> entries]

\* an instance of Error with the given message, and its test
Err(msg) == [k |-> "object", entries |-> <<>>, isError |-> TRUE, message |-> msg]
InstanceOfError(e) == e.k = "object" /\ "isError" \in DOMAIN e

\* JSON text: what JSON.parse makes of the string
JsonText(doc) == [k |-> "string", wf |-> TRUE, doc |-> doc]
BadText == [k |-> "string", wf |-> FALSE, v |-> "not json"]
EmptyText == [k |-> "string", wf |-> FALSE, v |-> ""]

IsNullish(x) == x.k \in {"undefined", "null"}
IsArray(x) == x.k = "array"
TypeOf(x) == CASE x.k \in {"null", "array"} -> "object"
               [] OTHER -> x.k
Truthy(x) ==
    CASE IsNullish(x) -> FALSE
      [] x.k = "string" -> IF "wf" \in DOMAIN x THEN x.wf \/ x.v # "" ELSE x.v # ""
      [] x.k = "number" -> x.n # 0
      [] OTHER -> TRUE

\* a?.key
Get(a, key) ==
    IF a.k = "object" /\ \E i \in 1..Len(a.entries) : a.entries[i].key = key
    THEN a.entries[CHOOSE i \in 1..Len(a.entries) : a.entries[i].key = key].val
    ELSE Undefined

\* a?.[i], i counted from 0
At(a, i) == IF IsArray(a) /\ i < Len(a.elems) THEN a.elems[i + 1] ELSE Undefined

\* x ?? d
Coalesce(x, d) == IF IsNullish(x) THEN d ELSE x

Keys(o) == { o.entries[i].key : i \in 1..Len(o.entries) }

NotUndefined(e) == e.val # Undefined

\* JSON.stringify: the document of the text.  A property whose value is
\* undefined is left out; an undefined array element is written as null.
RECURSIVE Doc(_)
Doc(x) ==
    CASE x.k = "object" ->
            LET kept == SelectSeq(x.entries, NotUndefined)
            IN  Obj([i \in 1..Len(kept) |-> Prop(kept[i].key, Doc(kept[i].val))])
      [] x.k = "array" ->
            Arr([i \in 1..Len(x.elems) |->
                    IF x.elems[i] = Undefined THEN Null ELSE Doc(x.elems[i])])
      [] OTHER -> x

JSONStringify(x) == JsonText(Doc(x))

\* JSON.parse: the value, or a SyntaxError
JSONParse(text) ==
    IF text.wf THEN [ok |-> TRUE, value |-> text.doc]
    ELSE [ok |-> FALSE, err |-> Err("Unexpected token")]

----------------------------------------------------------------------------
(* Normalization *)

Fields == <<"uuid", "title", "description", "keywords", "snippet", "url",
            "image_url", "language", "published_at", "source", "categories",
            "relevance_score", "locale">>

FieldSet == { Fields[i] : i \in 1..Len(Fields) }

\* mutant of MapSource: the object's 'name' is taken instead of its 'domain'
MapSourceName(a) ==
    IF TypeOf(Get(a, "source")) = "string"
    THEN Get(a, "source")
    ELSE Coalesce(Get(Get(a, "source"), "name"), Null)

MapSource(a) ==
    IF TypeOf(Get(a, "source")) = "string"
    THEN Get(a, "source")
    ELSE Coalesce(Get(Get(a, "source"), "domain"), Null)

\* mutant of MapField: every missing field defaults to null
MapFieldAllNull(a, f) ==
    CASE f = "source" -> MapSource(a)
      [] f = "categories" ->
            IF IsArray(Get(a, f)) THEN Get(a, f) ELSE Null
      [] f = "relevance_score" ->
            IF TypeOf(Get(a, f)) = "number" THEN Get(a, f) ELSE Null
      [] OTHER -> Coalesce(Get(a, f), Null)

MapField(a, f) ==
    CASE f = "uuid" -> Get(a, f)
      [] f \in {"title", "url", "language", "published_at"} ->
            Coalesce(Get(a, f), Undefined)
      [] f \in {"description", "keywords", "snippet", "image_url", "locale"} ->
            Coalesce(Get(a, f), Null)
      [] f = "source" -> MapSource(a)
      [] f = "categories" ->
            IF IsArray(Get(a, f)) THEN Get(a, f) ELSE Null
      [] f = "relevance_score" ->
            IF TypeOf(Get(a, f)) = "number" THEN Get(a, f) ELSE Null

MapArticle(a) == Obj([i \in 1..Len(Fields) |-> Prop(Fields[i], MapField(a, Fields[i]))])

ObjectValues(o) == [i \in 1..Len(o.entries) |-> o.entries[i].val]

\* mutant of PushLists: each list is put in front of the items (unshift)
RECURSIVE PushListsInFront(_)
PushListsInFront(vals) ==
    IF vals = <<>> THEN <<>>
    ELSE PushListsInFront(Tail(vals))
         \o (IF IsArray(Head(vals)) THEN Head(vals).elems ELSE <<>>)

\* items.push(...value) for every list-valued value, in order
RECURSIVE PushLists(_)
PushLists(vals) ==
    IF vals = <<>> THEN <<>>
    ELSE (IF IsArray(Head(vals)) THEN Head(vals).elems ELSE <<>>)
         \o PushLists(Tail(vals))

Items(json) ==
    LET data == IF Truthy(json) /\ TypeOf(json) = "object"
                THEN Get(json, "data") ELSE Undefined
    IN  IF IsArray(data) THEN data.elems
        ELSE IF Truthy(data) /\ TypeOf(data) = "object"
             THEN PushLists(ObjectValues(data))
             ELSE <<>>

mapTheNewsApiToNewsApiArticles(json) ==
    LET items == Items(json)
    IN  [i \in 1..Len(items) |-> MapArticle(items[i])]

----------------------------------------------------------------------------
(* What the provider and the model may send *)

With(o, key, val) ==
    Obj([i \in 1..Len(o.entries) |->
            IF o.entries[i].key = key THEN Prop(key, val) ELSE o.entries[i]])

Article(u) ==
    Obj(<< Prop("uuid", Str(u)), Prop("title", Str("headline")),
           Prop("description", Str("text")), Prop("keywords", Str("kw")),
           Prop("snippet", Str("snip")), Prop("url", Str("http://x")),
           Prop("image_url", Str("http://img")), Prop("language", Str("en")),
           Prop("published_at", Str("2025-01-01")), Prop("source", Str("cnn.com")),
           Prop("categories", Arr(<<Str("business")>>)),
           Prop("relevance_score", Num(1)), Prop("locale", Str("us")) >>)

A1 == Article("u1")
A2 == Article("u2")
AllNull == Obj([i \in 1..Len(Fields) |-> Prop(Fields[i], Null)])
Sparse == Obj(<< Prop("uuid", Str("u3")), Prop("description", Str("text")) >>)

GroupItems == {A1, A2}

ItemPool ==
    GroupItems \cup
    { Obj(<<>>), Null, AllNull, Sparse,
      With(A1, "source", Obj(<<Prop("domain", Str("bbc.com"))>>)),
      With(A1, "source", Obj(<<Prop("name", Str("BBC"))>>)),
      With(A1, "source", Obj(<<Prop("domain", Null)>>)),
      With(A1, "source", Num(7)),
      With(With(A1, "categories", Str("business")), "relevance_score", Str("0.9")) }

Lists(pool, n) == UNION { [1..m -> pool] : m \in 0..n }

Categories == <<"business", "tech", "sports", "science">>
CatKey(i) == IF i <= Len(Categories) THEN Categories[i] ELSE "general"

GroupValues(n) == { Arr(s) : s \in Lists(GroupItems, n) } \cup { Str("none") }

FlatPayloads ==
    { Obj(<< Prop("meta", Obj(<<Prop("found", Num(Len(s)))>>)), Prop("data", Arr(s)) >>) :
        s \in Lists(ItemPool, MaxItems) }

\* the values of a mapping of at most g entries that holds at most n articles
RECURSIVE GroupSeqs(_, _)
GroupSeqs(g, n) ==
    IF g = 0 THEN { <<>> }
    ELSE { <<>> } \cup
         UNION { { <<v>> \o rest :
                     rest \in GroupSeqs(g - 1, IF IsArray(v) THEN n - Len(v.elems) ELSE n) } :
                 v \in GroupValues(n) }

GroupedPayloads ==
    { Obj(<< Prop("data", Obj([i \in 1..Len(vals) |-> Prop(CatKey(i), vals[i])])) >>) :
        vals \in GroupSeqs(MaxGroups, MaxItems) }

OtherPayloads ==
    { Null, Arr(<<A1>>), Obj(<<>>), Obj(<<Prop("data", Null)>>),
      Obj(<<Prop("data", Str("none"))>>) }

Payloads == FlatPayloads \cup GroupedPayloads \cup OtherPayloads

Bodies == { JsonText(p) : p \in Payloads } \cup { BadText }

\* articles the model may send back: taken from the input, or of its own making
ModelItems == { Doc(MapArticle(A1)), Obj(<<Prop("title", Str("made up"))>>) }

ModelDocs ==
    { Arr(s) : s \in Lists(ModelItems, MaxItems) } \cup
    { Obj(<<Prop("articles", Arr(s))>>) : s \in Lists(ModelItems, MaxItems) } \cup
    { Obj(<<Prop("articles", Str("none"))>>), Obj(<<Prop("articles", Null)>>),
      Obj(<<Prop("items", Arr(<<Doc(MapArticle(A1))>>))>>), Obj(<<>>),
      Null, Num(0), Num(5), Str("none") }

Contents == { JsonText(d) : d \in ModelDocs } \cup { BadText, EmptyText, Null }

Completions ==
    { Obj(<<Prop("choices", Arr(<<Obj(<<Prop("message", Obj(<<Prop("content", c)>>))>>)>>))>>) :
        c \in Contents } \cup
    { Obj(<<>>), Obj(<<Prop("choices", Arr(<<>>))>>) }

\* what an outbound call may reject with: an Error, or some other value
Throwables == { Err("fetch failed"), Err("429 rate limited"), Str("boom") }

EnvValues == { Undefined, Str(""), Str("sk-test") }

----------------------------------------------------------------------------
(* The handlers *)

VARIABLES
    pc,          \* "idle", "fetch" (awaiting the provider), "model" (awaiting the model), "done"
    op,          \* the tool invoked: "news" or "business_news"
    env,         \* process.env.OPENAI_API_KEY
    res,         \* what the provider answered
    newsData,    \* what fetchTopHeadlines returned
    completion,  \* what the model call answered
    result,      \* how the handler ended
    calls        \* the outbound calls of this request, in order

vars == <<pc, op, env, res, newsData, completion, result, calls>>

NoAnswer == [k |-> "none"]
Response(status, body) == [k |-> "response", status |-> status, body |-> body]
Resolved(v) == [k |-> "resolved", value |-> v]
Rejected(e) == [k |-> "rejected", err |-> e]

Pending == [k |-> "pending"]
Returned(v) == [k |-> "returned", value |-> v]
Thrown(e) == [k |-> "thrown", err |-> e]

\* mutant of ResOk: only a server error counts as a failure
ResOkBelow500(r) == r.status < 500

\* res.ok
ResOk(r) == r.status \in 200..299

OkStatuses == {200}
FailStatuses == {401, 500}
ErrorBodies == { BadText, JsonText(Obj(<<Prop("error", Str("invalid token"))>>)) }

toolJson(data) == [content |-> << [type |-> "text", text |-> JSONStringify(data)] >>]

ErrorPayload(msg) == Obj(<<Prop("error", Str(msg))>>)

\* mutant of CatchHandler: the error is thrown again
CatchHandlerRethrow(err) == Thrown(err)

\* catch (err) { ... return toolJson({ error: message }) }
CatchHandler(err) ==
    LET message == IF InstanceOfError(err) THEN err.message ELSE "Unknown error"
    IN  Returned(toolJson(ErrorPayload(message)))

NewsData(articles) ==
    Obj(<< Prop("meta", Obj(<< Prop("found", Num(Len(articles))),
                               Prop("returned", Num(Len(articles))),
                               Prop("limit", Num(Len(articles))),
                               Prop("page", Num(1)) >>)),
           Prop("data", Arr(articles)) >>)

\* mutant of fetchTopHeadlines: res.ok is not looked at
fetchTopHeadlinesAnyStatus(answer) ==
    IF answer.k = "rejected" THEN [ok |-> FALSE, err |-> answer.err]
    ELSE LET raw == JSONParse(answer.body)
         IN  IF ~raw.ok THEN [ok |-> FALSE, err |-> raw.err]
             ELSE [ok |-> TRUE,
                   value |-> NewsData(mapTheNewsApiToNewsApiArticles(raw.value))]

\* fetchTopHeadlines from the provider's answer on: its value, or what it throws
fetchTopHeadlines(answer) ==
    IF answer.k = "rejected" THEN [ok |-> FALSE, err |-> answer.err]
    ELSE IF ~ResOk(answer) THEN [ok |-> FALSE, err |-> Err("Failed to fetch top headlines")]
    ELSE LET raw == JSONParse(answer.body)
         IN  IF ~raw.ok THEN [ok |-> FALSE, err |-> raw.err]
             ELSE [ok |-> TRUE,
                   value |-> NewsData(mapTheNewsApiToNewsApiArticles(raw.value))]

\* mutant of OpenaiKey: a built-in key stands in for a missing one
OpenaiKeyDefault(e) == IF Truthy(e) THEN e ELSE Str("sk-default")

\* process.env.OPENAI_API_KEY || ""
OpenaiKey(e) == IF Truthy(e) THEN e ELSE Str("")

\* completion.choices?.[0]?.message?.content
ContentOf(c) == Get(Get(At(Get(c, "choices"), 0), "message"), "content")

\* mutant of FilteredArticles: parsed.articles is taken without Array.isArray
FilteredArticlesUnchecked(content) ==
    LET contentString == IF TypeOf(content) = "string" THEN content ELSE EmptyText
        parsed == JSONParse(IF Truthy(contentString) THEN contentString
                            ELSE JsonText(Obj(<<>>)))
    IN  IF ~parsed.ok THEN Arr(<<>>)
        ELSE IF IsArray(parsed.value) THEN parsed.value
        ELSE IF Truthy(parsed.value) THEN Get(parsed.value, "articles")
             ELSE Arr(<<>>)

\* mutant of FilteredArticles: only a bare array is accepted
FilteredArticlesArrayOnly(content) ==
    LET contentString == IF TypeOf(content) = "string" THEN content ELSE EmptyText
        parsed == JSONParse(IF Truthy(contentString) THEN contentString
                            ELSE JsonText(Obj(<<>>)))
    IN  IF ~parsed.ok THEN Arr(<<>>)
        ELSE IF IsArray(parsed.value) THEN parsed.value
        ELSE Arr(<<>>)

\* the parse of the completion's content into filteredArticles
FilteredArticles(content) ==
    LET contentString == IF TypeOf(content) = "string" THEN content ELSE EmptyText
        parsed == JSONParse(IF Truthy(contentString) THEN contentString
                            ELSE JsonText(Obj(<<>>)))
    IN  IF ~parsed.ok THEN Arr(<<>>)
        ELSE IF IsArray(parsed.value) THEN parsed.value
        ELSE IF Truthy(parsed.value) /\ IsArray(Get(parsed.value, "articles"))
             THEN Get(parsed.value, "articles")
             ELSE Arr(<<>>)

Init ==
    /\ pc = "idle"
    /\ op = "none"
    /\ env \in EnvValues
    /\ res = NoAnswer
    /\ newsData = Undefined
    /\ completion = NoAnswer
    /\ result = Pending
    /\ calls = <<>>

\* a tool is invoked: the handler runs up to `await fetch(newsUrl)`
Invoke(tool) ==
    /\ pc = "idle"
    /\ pc' = "fetch"
    /\ op' = tool
    /\ calls' = Append(calls, "provider")
    /\ UNCHANGED <<env, res, newsData, completion, result>>

InvokeNews == Invoke("news")

InvokeBusinessNews == Invoke("business_news")

\* the handler from the provider's answer to its return or its next await
AfterFetch(answer) ==
    LET fetched == fetchTopHeadlines(answer)
    IN  /\ res' = answer
        /\ UNCHANGED <<op, env, completion>>
        /\ IF ~fetched.ok
           THEN /\ result' = CatchHandler(fetched.err)
                /\ pc' = "done"
                /\ UNCHANGED <<newsData, calls>>
           ELSE /\ newsData' = fetched.value
                /\ IF op = "news"
                   THEN /\ result' = Returned(toolJson(fetched.value))
                        /\ pc' = "done"
                        /\ UNCHANGED calls
                   ELSE IF ~Truthy(OpenaiKey(env))
                   THEN /\ result' = Returned(toolJson(ErrorPayload("Missing OPENAI_API_KEY")))
                        /\ pc' = "done"
                        /\ UNCHANGED calls
                   ELSE /\ calls' = Append(calls, "model")
                        /\ pc' = "model"
                        /\ UNCHANGED result

ProviderRespondsOk ==
    /\ pc = "fetch"
    /\ \E status \in OkStatuses, body \in Bodies : AfterFetch(Response(status, body))

ProviderRespondsNotOk ==
    /\ pc = "fetch"
    /\ \E status \in FailStatuses, body \in ErrorBodies : AfterFetch(Response(status, body))

ProviderUnreachable ==
    /\ pc = "fetch"
    /\ \E e \in Throwables : AfterFetch(Rejected(e))

\* the model call resolves: the handler parses the content and returns
ModelResolves ==
    /\ pc = "model"
    /\ \E c \in Completions :
        /\ completion' = Resolved(c)
        /\ result' = Returned(toolJson(Obj(<<Prop("articles", FilteredArticles(ContentOf(c)))>>)))
    /\ pc' = "done"
    /\ UNCHANGED <<op, env, res, newsData, calls>>

\* the model call rejects: the outer catch returns the error envelope
ModelRejects ==
    /\ pc = "model"
    /\ \E e \in Throwables :
        /\ completion' = Rejected(e)
        /\ result' = CatchHandler(e)
    /\ pc' = "done"
    /\ UNCHANGED <<op, env, res, newsData, calls>>

\* the request is over; nothing of it is kept
NextRequest ==
    /\ pc = "done"
    /\ pc' = "idle"
    /\ op' = "none"
    /\ res' = NoAnswer
    /\ newsData' = Undefined
    /\ completion' = NoAnswer
    /\ result' = Pending
    /\ calls' = <<>>
    /\ UNCHANGED env

Next ==
    \/ InvokeNews
    \/ InvokeBusinessNews
    \/ ProviderRespondsOk
    \/ ProviderRespondsNotOk
    \/ ProviderUnreachable
    \/ ModelResolves
    \/ ModelRejects
    \/ NextRequest

Spec == Init /\ [][Next]_vars

----------------------------------------------------------------------------
(* What the properties speak of *)

Done == pc = "done"

\* the JSON payload the caller receives
Payload == result.value.content[1].text.doc

ErrorEnvelope(msg) == Obj(<<Prop("error", Str(msg))>>)
ArticlesEnvelope(list) == Obj(<<Prop("articles", Arr(list))>>)

\* a model API key is configured
KeyConfigured == env.k = "string" /\ env.v # ""

\* the provider answered with a success status
StatusOk == res.k = "response" /\ res.status >= 200 /\ res.status <= 299
\* ... and a body that is JSON
FetchGood == StatusOk /\ res.body.wf

Raw == res.body.doc
RawData == Get(Raw, "data")
Out == Get(newsData, "data").elems

FlatCase == FetchGood /\ Raw.k = "object" /\ RawData.k = "array"
GroupedCase == FetchGood /\ Raw.k = "object" /\ RawData.k = "object"

ModelAnswered == Done /\ completion.k = "resolved"
Content == ContentOf(completion.value)

AbsentIn(elem, f) == elem.k # "object" \/ f \notin Keys(elem)

\* number of articles in the list-valued entries before entry i of the mapping
RECURSIVE OffsetOf(_, _)
OffsetOf(o, i) ==
    IF i = 1 THEN 0
    ELSE OffsetOf(o, i - 1)
         + (IF o.entries[i - 1].val.k = "array" THEN Len(o.entries[i - 1].val.elems) ELSE 0)

----------------------------------------------------------------------------
(* C1 *)

\* C1, as stated: every business_news invocation made while no model API key
\* is configured returns { error: "Missing OPENAI_API_KEY" }.
C1_EveryInvocationMissingKey ==
    (Done /\ op = "business_news" /\ ~KeyConfigured)
        => Payload = ErrorEnvelope("Missing OPENAI_API_KEY")

\* C1, amended: a business_news invocation made while no model API key is
\* configured returns { error: "Missing OPENAI_API_KEY" } when the headline
\* fetch succeeded, and no model call was made; when the fetch failed it
\* returns an error envelope with the fetch's message instead.
C1_MissingKeyAfterFetch ==
    (Done /\ op = "business_news" /\ ~KeyConfigured)
        => /\ "model" \notin { calls[i] : i \in 1..Len(calls) }
           /\ FetchGood => Payload = ErrorEnvelope("Missing OPENAI_API_KEY")
           /\ ~FetchGood => /\ Keys(Payload) = {"error"}
                            /\ Payload # ErrorEnvelope("Missing OPENAI_API_KEY")

C1_Witness ==
    /\ Done /\ op = "business_news" /\ env = Undefined /\ FetchGood
    /\ Payload = ErrorEnvelope("Missing OPENAI_API_KEY")

(* C2 *)

\* C2: when the model call itself fails (after a successful fetch, with the
\* credential present) business_news returns { articles: [] }, not { error }.
C2_ModelFailureGivesEmptyList ==
    (Done /\ op = "business_news" /\ completion.k = "rejected")
        => Payload = ArticlesEnvelope(<<>>)

(* C3 *)

\* the content is missing, is not valid JSON, or is JSON that is neither an
\* array nor an object holding an array under 'articles'
ContentUnusable ==
    \/ Content.k # "string"
    \/ ~Content.wf
    \/ /\ Content.wf
       /\ Content.doc.k # "array"
       /\ ~(Content.doc.k = "object" /\ Get(Content.doc, "articles").k = "array")

\* C3: when the model call succeeds with unusable content, business_news
\* returns { articles: [] } under the success envelope, never { error }.
C3_UnusableContentGivesEmptyList ==
    (ModelAnswered /\ ContentUnusable) => Payload = ArticlesEnvelope(<<>>)

C3_Witness ==
    /\ ModelAnswered /\ Content = BadText
    /\ Payload = ArticlesEnvelope(<<>>)

(* C4 *)

\* C4: a non-success status of the provider makes news, and business_news
\* alike, return { error: "Failed to fetch top headlines" }.
C4_NonSuccessStatus ==
    (Done /\ res.k = "response" /\ ~StatusOk)
        => Payload = ErrorEnvelope("Failed to fetch top headlines")

C4_Witness ==
    /\ Done /\ op = "business_news" /\ res.k = "response" /\ res.status = 500
    /\ Payload = ErrorEnvelope("Failed to fetch top headlines")

(* C5 *)

\* C5: for a payload whose 'data' is a mapping, the result is the
\* concatenation of the list-valued entries in the mapping's order, each list
\* in its own order; the other entries add nothing, so the length is the sum
\* of the lists' lengths.
C5_Flattening ==
    (newsData # Undefined /\ GroupedCase) =>
        LET n == Len(RawData.entries)
        IN  /\ Len(Out) = OffsetOf(RawData, n + 1)
            /\ \A i \in 1..n :
                 LET v == RawData.entries[i].val
                 IN  v.k = "array" =>
                        \A j \in 1..Len(v.elems) :
                            Get(Out[OffsetOf(RawData, i) + j], "uuid") = Get(v.elems[j], "uuid")

C5_Witness ==
    /\ newsData # Undefined /\ GroupedCase
    /\ ObjectValues(RawData) = << Arr(<<A2>>), Str("none"), Arr(<<A1>>) >>
    /\ Len(Out) = 2
    /\ Get(Out[1], "uuid") = Str("u2")
    /\ Get(Out[2], "uuid") = Str("u1")

(* C6 *)

\* C6, as stated: a field absent in the provider's element is absent in the
\* normalized article, whatever the field.
C6_AbsentStaysAbsent ==
    (newsData # Undefined /\ FetchGood) =>
        \A items \in {Items(Raw)} : \A i \in 1..Len(items) :
            \A docKeys \in {Keys(Doc(Out[i]))} : \A f \in FieldSet :
                AbsentIn(items[i], f) =>
                    /\ Get(Out[i], f) = Undefined
                    /\ f \notin docKeys

\* the fields normalization leaves undefined when the element lacks them
OmittedWhenAbsent == {"uuid", "title", "url", "language", "published_at"}

\* C6, amended: uuid, title, url, language and published_at, when absent in
\* the provider's element, are absent in the normalized article (undefined,
\* left out of its JSON); description, keywords, snippet, image_url, source,
\* categories, relevance_score and locale, when absent, become null.
C6_AbsentOmittedOrNull ==
    (newsData # Undefined /\ FetchGood) =>
        \A items \in {Items(Raw)} : \A i \in 1..Len(items) :
            \A doc \in {Doc(Out[i])} : \A f \in FieldSet :
                AbsentIn(items[i], f) =>
                    IF f \in OmittedWhenAbsent
                    THEN /\ Get(Out[i], f) = Undefined
                         /\ f \notin Keys(doc)
                    ELSE /\ Get(Out[i], f) = Null
                         /\ Get(doc, f) = Null

C6_Witness ==
    /\ newsData # Undefined /\ FlatCase
    /\ RawData.elems = <<Sparse>>
    /\ Get(Out[1], "title") = Undefined
    /\ Get(Out[1], "locale") = Null
    /\ Keys(Doc(Out[1])) = FieldSet \ {"title", "url", "language", "published_at"}

(* C7 *)

\* C7: for a flat array under 'data' the result has one article per element,
\* in the same order; a string source passes through unchanged, an object
\* source maps to its 'domain' sub-field, null when it has none.
C7_FlatArray ==
    (newsData # Undefined /\ FlatCase) =>
        /\ Len(Out) = Len(RawData.elems)
        /\ \A i \in 1..Len(RawData.elems) :
             LET a == RawData.elems[i]
                 src == Get(a, "source")
             IN  /\ Get(Out[i], "uuid") = Get(a, "uuid")
                 /\ src.k = "string" => Get(Out[i], "source") = src
                 /\ src.k = "object" =>
                        Get(Out[i], "source") =
                            (IF "domain" \in Keys(src) THEN Get(src, "domain") ELSE Null)

C7_Witness ==
    /\ newsData # Undefined /\ FlatCase
    /\ RawData.elems = << With(A1, "source", Obj(<<Prop("domain", Str("bbc.com"))>>)), A2 >>
    /\ Get(Out[1], "source") = Str("bbc.com")
    /\ Get(Out[2], "source") = Str("cnn.com")
    /\ Get(Out[2], "uuid") = Str("u2")

(* C8 *)

\* C8: when the content parses to an array, or to an object holding an array
\* under 'articles', business_news returns { articles: <that array> }: the
\* same elements, in the same order, unchanged.
C8_PassThrough ==
    (ModelAnswered /\ Content.k = "string" /\ Content.wf) =>
        /\ Content.doc.k = "array" => Payload = Obj(<<Prop("articles", Content.doc)>>)
        /\ (Content.doc.k = "object" /\ Get(Content.doc, "articles").k = "array") =>
                Payload = Obj(<<Prop("articles", Get(Content.doc, "articles"))>>)

C8_Witness ==
    /\ ModelAnswered /\ Content.k = "string" /\ Content.wf
    /\ Content.doc.k = "object"
    /\ Get(Content.doc, "articles").k = "array"
    /\ Len(Get(Content.doc, "articles").elems) = 2
    /\ Get(Content.doc, "articles").elems[1] # Get(Content.doc, "articles").elems[2]
    /\ Get(Payload, "articles") = Get(Content.doc, "articles")

(* C9 *)

\* C9: a handler never throws and ends with one response: a single content
\* item of type "text" whose JSON payload is the operation's success value or
\* { error: <string> }, never a result list together with an error.
C9_OneWellFormedResponse ==
    /\ result.k \in {"pending", "returned"}
    /\ Done <=> result.k = "returned"
    /\ result.k = "returned" =>
        LET content == result.value.content
        IN  /\ Len(content) = 1
            /\ content[1].type = "text"
            /\ content[1].text.k = "string" /\ content[1].text.wf
            /\ Payload.k = "object"
            /\ \/ Keys(Payload) = {"error"} /\ Get(Payload, "error").k = "string"
               \/ /\ op = "news"
                  /\ Keys(Payload) = {"meta", "data"}
                  /\ Get(Payload, "data").k = "array"
               \/ /\ op = "business_news"
                  /\ Keys(Payload) = {"articles"}
                  /\ Get(Payload, "articles").k = "array"

C9_Witness ==
    /\ Done /\ op = "business_news" /\ completion = Rejected(Str("boom"))
    /\ result.k = "returned"
    /\ Payload = ErrorEnvelope("Unknown error")

(* C10 *)

\* C10: in one request the provider is called once, first; the model is called
\* at most once, and only in business_news, after the fetch succeeded and with
\* the credential present.
C10_CallOrder ==
    /\ calls \in { <<>>, <<"provider">>, <<"provider", "model">> }
    /\ pc = "idle" <=> calls = <<>>
    /\ pc = "model" => calls = <<"provider", "model">>
    /\ calls = <<"provider", "model">> =>
        /\ op = "business_news"
        /\ FetchGood
        /\ KeyConfigured
        /\ pc \in {"model", "done"}

C10_Witness ==
    /\ Done /\ calls = <<"provider", "model">>
    /\ op = "business_news" /\ completion.k = "resolved"

====
